---- MODULE Spec2Model ----
(***************************************************************************)
(* Verification model of the cpputils lock-free queues and string pool.    *)
(*                                                                         *)
(*   - the bounded work-stealing deque   (src/include/SpmcQueue.h)         *)
(*   - the ring SPMCQueue and SPSCQueue  (src/Queue.h)                     *)
(*   - cpputils::SpscQueue               (src/include/SpscQueue.h)         *)
(*   - the string interning pool         (src/StringIntern.h)              *)
(*                                                                         *)
(* Every load, store and compare-and-swap of a shared location is one      *)
(* step of the thread that performs it; the steps of different threads     *)
(* interleave freely (sequentially consistent interleaving semantics).     *)
(* A load of a location that only the loading thread ever writes is        *)
(* folded into that thread's next step.                                    *)
(***************************************************************************)
EXTENDS Integers, Sequences, FiniteSets, Bags

(***************************************************************************)
(* Bounds of the model.                                                    *)
(***************************************************************************)
\* SpmcQueue<T, LogSize>: base-2 logarithm of the number of slots
LogSize == 2
\* number of thief threads calling SpmcQueue::steal
NumThieves == 2
\* number of successful pushes the owner performs
MaxPush == 5

\* ring queues of src/Queue.h: base-2 logarithm of the template argument Capacity
RingLog == 2
\* number of consumer threads calling SPMCQueue::dequeue / steal
NumConsumers == 2
\* number of values the producer enqueues (1, 2, ..., MaxEnq, in this order)
MaxEnq == 5

\* cpputils::SpscQueue<T, INITIAL_CAPACITY>: base-2 logarithm of INITIAL_CAPACITY
SqLog == 2
\* number of values its producer enqueues (1, 2, ..., MaxSqEnq, in this order),
\* and number of successful try_dequeue calls its consumer makes
MaxSqEnq == 6

\* constructors: the largest slot count (template argument Capacity or
\* INITIAL_CAPACITY) and the largest LogSize a queue is constructed with
MaxCtorArg == 17
MaxCtorLog == 4
\* number of bits of size_t in the model of the constructors' arithmetic
SizeBits == 16

\* StringPool: number of threads that intern, look up and release strings
NumPoolThreads == 2
\* number of handles (StringPtr) one thread holds at a time
MaxHeld == 2

RECURSIVE Pow2(_)
Pow2(n) == IF n = 0 THEN 1 ELSE 2 * Pow2(n - 1)

\* the null handle (nullptr)
Null == 0

VARIABLES
  \* ---- SpmcQueue (work-stealing deque) ----
  head_,      \* std::atomic<int64_t> head_
  tail_,      \* std::atomic<int64_t> tail_
  buffer_,    \* std::atomic<T> buffer_[BufferSize_]
  opc,        \* owner: position inside try_push / push / pop
  oTail,      \* owner: local `tail`
  oHead,      \* owner: local `head`
  oItem,      \* owner: local `item` of pop, or the handle being pushed
  thieves,    \* the thief threads: a bag of [pc, head, item], one copy per
              \* thread, holding its position inside steal and its locals
              \* `head` and `item` (thieves run the same code and carry no
              \* identity, so threads in the same local state are one element)
  nPush,      \* history: number of successful pushes (handles are 1 .. nPush)
  taken,      \* history: for each handle, who has returned it
  popEntry,   \* history: the value of head_ and tail_ when the pop in progress
              \* was called, if they were equal then (empty deque); else -1
  \* ---- SPMCQueue / SPSCQueue (src/Queue.h) ----
  head,       \* std::atomic<size_t> head
  tail,       \* std::atomic<size_t> tail
  data,       \* std::vector<T> data
  ppc,        \* producer: position inside enqueue
  currentTail,\* producer: local `currentTail`
  consumers,  \* the consumer threads: a bag of [pc, currentHead, result, recv,
              \* sawEmpty], one copy per thread: its position inside dequeue,
              \* its local `currentHead`, the caller's variable `result`, and
              \* (history) the values its successful dequeues returned, in
              \* order, and whether the queue was empty at some instant since
              \* the thread's current call began
  nEnq,       \* history: number of successful enqueues (values are 1 .. nEnq)
  deliv,      \* history: the values returned by successful dequeues, in the
              \* order of their compare-and-swaps on head
  \* ---- cpputils::SpscQueue (src/include/SpscQueue.h) ----
  sq_head_,   \* std::atomic<size_t> head_
  sq_tail_,   \* std::atomic<size_t> tail_
  capacity_,  \* size_t capacity_
  sq_buffer_, \* std::vector<T> buffer_ (a sequence indexed from 0)
  epc,        \* producer: position inside inner_enqueue / resize
  eHead,      \* producer: local `head_` of inner_enqueue, of resize
  eTail,      \* producer: local `tail_` of inner_enqueue, of resize
  new_buffer, \* producer: local `new_buffer` of resize
  dpc,        \* consumer: position inside try_dequeue
  dHead,      \* consumer: local `head_` of try_dequeue
  result,     \* consumer: the caller's variable `result`
  peeked,     \* consumer: the pointer the caller got from its last peek(), as
              \* the index of the slot it points to; -1: nullptr, or no
              \* pointer held
  sqEnq,      \* history: number of successful enqueues (values are 1 .. sqEnq)
  sqDeliv,    \* history: the values obtained by successful try_dequeue calls
  \* ---- construction of a queue object ----
  ctor,       \* the object under construction: [kind, arg, pc, mask, slots,
              \* head, tail]: its class, its template argument, the position
              \* inside the constructor, and the members set so far (-1: not
              \* yet set)
  \* ---- StringPool (src/StringIntern.h) ----
  pool_,      \* std::unordered_map<uint32_t, std::weak_ptr<const String>> pool_:
              \* for each hash the String object its entry refers to, 0: no entry
  mutex_,     \* std::mutex mutex_: the thread that holds it, 0: unlocked
  strings,    \* the String objects on the heap: [data, hash, strong, live]:
              \* the text, the hash captured by the deleter, the use count of
              \* the shared_ptr control block, and whether the object exists
  pth         \* the threads: [pc, text, hash, ret, held]: the position inside
              \* intern / getStringByHash / the deleter, the arguments of the
              \* call, the StringPtr being returned (a String object, 0:
              \* nullptr), and the handles the thread holds, each with the
              \* text it was interned for (history)

dequeVars == <<head_, tail_, buffer_, opc, oTail, oHead, oItem,
               thieves, nPush, taken, popEntry>>

ringVars == <<head, tail, data, ppc, currentTail, consumers, nEnq, deliv>>

sqVars == <<sq_head_, sq_tail_, capacity_, sq_buffer_, epc, eHead, eTail,
           new_buffer, dpc, dHead, result, peeked, sqEnq, sqDeliv>>

poolVars == <<pool_, mutex_, strings, pth>>

vars == <<dequeVars, ringVars, sqVars, ctor, poolVars>>

\* the variables of the other queues
notDeque == <<ringVars, sqVars, ctor, poolVars>>
notRing == <<dequeVars, sqVars, ctor, poolVars>>
notSq == <<dequeVars, ringVars, ctor, poolVars>>
notCtor == <<dequeVars, ringVars, sqVars, poolVars>>
notPool == <<dequeVars, ringVars, sqVars, ctor>>

(***************************************************************************)
(* Work-stealing deque: src/include/SpmcQueue.h                            *)
(***************************************************************************)
BufferSize_ == Pow2(LogSize)
BufferMask_ == BufferSize_ - 1

\* x & BufferMask_ on a two's-complement int64 (also for negative x)
Mask(x) == x % BufferSize_

\* Handles are numbered in the order of their successful push: 1, 2, ...
Handles == 1 .. MaxPush

\* the handles pushed successfully and not yet returned by a pop or steal
Live == {h \in 1 .. nPush : taken[h] = "none"}

\* taken after a pop or steal (by) has returned item: a handle that is not
\* live (never pushed, or returned before) is marked "again"
Take(by, item) ==
  IF item = Null THEN taken
  ELSE [taken EXCEPT ![item] = IF item \in Live THEN by ELSE "again"]

\* a thief outside steal: its locals are dead
IdleThief == [pc |-> "idle", head |-> 0, item |-> Null]

\* one thief moves from local state r to local state r2
ThiefStep(r, r2) == thieves' = (thieves (-) SetToBag({r})) (+) SetToBag({r2})

\* SpmcQueue() = default: head_, tail_ and the slots are taken to be
\* value-initialised (zero, nullptr), as std::atomic's default constructor
\* leaves them since C++20
InitDeque ==
  /\ head_ = 0
  /\ tail_ = 0
  /\ buffer_ = [i \in 0 .. BufferSize_ - 1 |-> Null]
  /\ opc = "idle"
  /\ oTail = 0
  /\ oHead = 0
  /\ oItem = Null
  /\ thieves = [r \in {IdleThief} |-> NumThieves]
  /\ nPush = 0
  /\ taken = [h \in Handles |-> "none"]
  /\ popEntry = -1

(***************************************************************************)
(* Ring queues: src/Queue.h.  SPMCQueue and SPSCQueue have the same         *)
(* members, constructor, enqueue and dequeue; SPMCQueue::steal has the      *)
(* body of dequeue.  The queues differ in the number of consumer threads.   *)
(***************************************************************************)
Capacity == Pow2(RingLog)
mask == Capacity - 1

\* x & mask
RingMask(x) == x % Capacity

\* a consumer outside dequeue that has not received anything yet
FreshConsumer ==
  [pc |-> "idle", currentHead |-> 0, result |-> 0, recv |-> <<>>,
   sawEmpty |-> FALSE]

\* constructor: data.resize(Capacity); head.store(0); tail.store(0)
InitRing(nConsumers) ==
  /\ head = 0
  /\ tail = 0
  /\ data = [i \in 0 .. Capacity - 1 |-> 0]
  /\ ppc = "idle"
  /\ currentTail = 0
  /\ consumers = [r \in {FreshConsumer} |-> nConsumers]
  /\ nEnq = 0
  /\ deliv = <<>>

(***************************************************************************)
(* cpputils::SpscQueue: src/include/SpscQueue.h, with T = int as in its     *)
(* tests: moving an element out of a slot and destroying it leave the slot's *)
(* value in place.                                                          *)
(***************************************************************************)
INITIAL_CAPACITY == Pow2(SqLog)

\* the initial capacity of the queue in TEST_CASE("Dynamic resizing")
TestCapacity == 2

\* a vector of n value-initialised elements
NewVector(n) == [i \in 0 .. n - 1 |-> 0]

\* SpscQueue(): head_(0), tail_(0), capacity_(INITIAL_CAPACITY), buffer_(capacity_)
\* for INITIAL_CAPACITY = c
InitSqWith(c) ==
  /\ sq_head_ = 0
  /\ sq_tail_ = 0
  /\ capacity_ = c
  /\ sq_buffer_ = NewVector(c)
  /\ epc = "idle"
  /\ eHead = 0
  /\ eTail = 0
  /\ new_buffer = <<>>
  /\ dpc = "idle"
  /\ dHead = 0
  /\ result = 0
  /\ peeked = -1
  /\ sqEnq = 0
  /\ sqDeliv = <<>>

InitSq == InitSqWith(INITIAL_CAPACITY)

\* no object is under construction
NoCtor ==
  [kind |-> "none", arg |-> 0, pc |-> "none", mask |-> -1, slots |-> -1,
   head |-> -1, tail |-> -1]

(***************************************************************************)
(* StringPool: src/StringIntern.h.  A uint32_t is kept as the pair of its   *)
(* 16-bit halves <<high, low>>.                                            *)
(***************************************************************************)
Half == Pow2(16)
Byte == Pow2(8)

\* a ^ b on unsigned integers
RECURSIVE BitXor(_, _)
BitXor(a, b) ==
  IF a = 0 THEN b
  ELSE IF b = 0 THEN a
  ELSE ((a + b) % 2) + 2 * BitXor(a \div 2, b \div 2)

\* uint32_t hash = 0x811c9dc5
FnvBasisHigh == 33052
FnvBasisLow == 40389
\* hash *= 0x01000193: 2^24 + FnvPrimeLow
FnvPrimeLow == 403

\* hash ^= static_cast<uint32_t>(str[i]) for a character code below 256
FnvXor(h, c) == <<h[1], (h[2] \div Byte) * Byte + BitXor(h[2] % Byte, c)>>

\* hash *= 0x01000193, modulo 2^32
FnvMul(h) ==
  LET low == h[2] * FnvPrimeLow
  IN  <<(h[1] * FnvPrimeLow + low \div Half + (h[2] % Byte) * Byte) % Half,
        low % Half>>

\* fnv1a / fnv1a_runtime over the first n characters of str
RECURSIVE FnvPrefix(_, _)
FnvPrefix(str, n) ==
  IF n = 0 THEN <<FnvBasisHigh, FnvBasisLow>>
  ELSE FnvMul(FnvXor(FnvPrefix(str, n - 1), str[n]))

fnv1a(str) == FnvPrefix(str, Len(str))

\* the texts that are interned, as sequences of character codes:
\* "hello", "world", "zinke", "altarage"
TextHello == <<104, 101, 108, 108, 111>>
TextWorld == <<119, 111, 114, 108, 100>>
TextZinke == <<122, 105, 110, 107, 101>>
TextAltarage == <<97, 108, 116, 97, 114, 97, 103, 101>>
Texts == {TextHello, TextZinke, TextAltarage}

\* the hash of each text, and the hashes that are looked up
HashOf == [str \in Texts \cup {TextWorld} |-> fnv1a(str)]
Hashes == {HashOf[str] : str \in Texts \cup {TextWorld}}

PoolThreads == 1 .. NumPoolThreads
\* identities of String objects; 0 stands for nullptr
StringIds == 1 .. Cardinality(Hashes)

\* no String object at this identity
NoString == [data |-> <<>>, hash |-> <<0, 0>>, strong |-> 0, live |-> FALSE]

\* a thread outside every call, holding nothing
IdlePoolThread ==
  [pc |-> "idle", text |-> <<>>, hash |-> <<0, 0>>, ret |-> 0, held |-> <<>>]

\* StringPool() = default: an empty table, an unlocked mutex
InitPool ==
  /\ pool_ = [h \in Hashes |-> 0]
  /\ mutex_ = 0
  /\ strings = [o \in StringIds |-> NoString]
  /\ pth = [t \in PoolThreads |-> IdlePoolThread]

Init ==
  InitDeque /\ InitRing(NumConsumers) /\ InitSq /\ ctor = NoCtor /\ InitPool

\* SPSCQueue: one consumer thread
InitSpsc == InitDeque /\ InitRing(1) /\ InitSq /\ ctor = NoCtor /\ InitPool


(* ---- owner: try_push / push ------------------------------------------- *)
ownerLocals == <<opc, oTail, oHead, oItem, popEntry>>

\* the owner returns from its call; its locals die
OwnerReturns ==
  /\ opc' = "idle"
  /\ oTail' = 0
  /\ oHead' = 0
  /\ oItem' = Null
  /\ popEntry' = -1

\* mutant of IsFull: the guard slot is given up
IsFullLate(t, h) == (t - h) >= BufferSize_

\* the fullness test of try_push and push on the loaded tail and head
IsFull(t, h) == (t - h) >= BufferSize_ - 1

\* try_push / push: load tail_ (relaxed) and head_ (acquire), test for full.
\* On a full deque try_push goes on to return false, push to invoke on_full.
PushBegin(kind) ==
  /\ opc = "idle"
  /\ nPush < MaxPush
  /\ IF IsFull(tail_, head_)
       THEN /\ opc' = IF kind = "push" THEN "push_on_full" ELSE "push_false"
            /\ UNCHANGED <<oTail, oHead, oItem>>
       ELSE /\ opc' = "push_store"
            /\ oTail' = tail_
            /\ oHead' = 0
            /\ oItem' = nPush + 1
  /\ UNCHANGED <<notDeque, head_, tail_, buffer_, thieves, nPush, taken, popEntry>>

\* try_push on a full deque: return false
TryPushFalse ==
  /\ opc = "push_false"
  /\ OwnerReturns
  /\ UNCHANGED <<notDeque, head_, tail_, buffer_, thieves, nPush, taken>>

\* push on a full deque: on_full(); return
PushOnFull ==
  /\ opc = "push_on_full"
  /\ OwnerReturns
  /\ UNCHANGED <<notDeque, head_, tail_, buffer_, thieves, nPush, taken>>

\* buffer_[tail & BufferMask_].store(o, relaxed)
PushStore ==
  /\ opc = "push_store"
  /\ buffer_' = [buffer_ EXCEPT ![Mask(oTail)] = oItem]
  /\ opc' = "push_publish"
  /\ UNCHANGED <<notDeque, head_, tail_, oTail, oHead, oItem,
                 thieves, nPush, taken, popEntry>>

\* tail_.store(tail + 1, release); try_push returns true (1)
PushPublish ==
  /\ opc = "push_publish"
  /\ tail_' = oTail + 1
  /\ nPush' = nPush + 1
  /\ OwnerReturns
  /\ UNCHANGED <<notDeque, head_, buffer_, thieves, taken>>

(* ---- owner: pop -------------------------------------------------------- *)
\* tail = tail_.load(relaxed) - 1; tail_.store(tail, relaxed)
PopDecrement ==
  /\ opc = "idle"
  /\ oTail' = tail_ - 1
  /\ tail_' = tail_ - 1
  /\ opc' = "pop_head"
  /\ popEntry' = IF head_ = tail_ THEN head_ ELSE -1
  /\ UNCHANGED <<notDeque, head_, buffer_, oHead, oItem, thieves, nPush, taken>>

\* head = head_.load(relaxed); if (head <= tail) ... else ...
PopLoadHead ==
  /\ opc = "pop_head"
  /\ oHead' = head_
  /\ opc' = IF head_ <= oTail THEN "pop_item" ELSE "pop_undo"
  /\ UNCHANGED <<notDeque, head_, tail_, buffer_, oTail, oItem,
                 thieves, nPush, taken, popEntry>>

\* mutants of PopSlot: pop reads the slot at head (FIFO), or the slot just
\* above the decremented tail
PopSlotAtHead(t, h) == Mask(h)
PopSlotAbove(t, h) == Mask(t + 1)

\* the slot pop reads its item from
PopSlot(t, h) == Mask(t)

\* item = buffer_[tail & BufferMask_].load(relaxed);
\* with head < tail the item is returned at once
PopLoadItem ==
  /\ opc = "pop_item"
  /\ LET item == buffer_[PopSlot(oTail, oHead)] IN
       IF oHead = oTail
         THEN /\ opc' = "pop_cas"
              /\ oItem' = item
              /\ UNCHANGED <<oTail, oHead, taken, popEntry>>
         ELSE /\ OwnerReturns
              /\ taken' = Take("pop", item)
  /\ UNCHANGED <<notDeque, head_, tail_, buffer_, thieves, nPush>>

\* mutant of CasHeadSucceeds: a plain store in place of the compare-and-swap
CasHeadBlind(expected) == TRUE
\* mutant of CasHeadSucceeds: the compare-and-swap always fails
CasHeadNever(expected) == FALSE

\* head_.compare_exchange_strong(expected, expected + 1): does it succeed?
CasHeadSucceeds(expected) == head_ = expected

\* if (!head_.compare_exchange_strong(head, head + 1)) item = nullptr;
PopCas ==
  /\ opc = "pop_cas"
  /\ IF CasHeadSucceeds(oHead)
       THEN /\ head_' = oHead + 1
            /\ UNCHANGED oItem
       ELSE /\ oItem' = Null
            /\ UNCHANGED head_
  /\ oHead' = 0
  /\ opc' = "pop_restore"
  /\ UNCHANGED <<notDeque, tail_, buffer_, oTail, thieves, nPush, taken,
                 popEntry>>

\* mutants of PopRestoredTail: the decrement of tail_ is not undone, is done
\* a second time, or is undone twice
PopRestoredTailKept(t) == t
PopRestoredTailBelow(t) == t - 1
PopRestoredTailTwice(t) == t + 2

\* the value pop writes back to tail_ after the last-item race or on empty
PopRestoredTail(t) == t + 1

\* tail_.store(tail + 1, relaxed) after the compare-and-swap; return item
PopRestore ==
  /\ opc = "pop_restore"
  /\ tail_' = PopRestoredTail(oTail)
  /\ OwnerReturns
  /\ taken' = Take("pop", oItem)
  /\ UNCHANGED <<notDeque, head_, buffer_, thieves, nPush>>

\* else branch (head > tail): tail_.store(tail + 1, relaxed); return nullptr
PopUndo ==
  /\ opc = "pop_undo"
  /\ tail_' = PopRestoredTail(oTail)
  /\ OwnerReturns
  /\ UNCHANGED <<notDeque, head_, buffer_, thieves, nPush, taken>>

(* ---- thieves: steal ---------------------------------------------------- *)
\* head = head_.load(acquire)
StealLoadHead(r) ==
  /\ r.pc = "idle"
  /\ ThiefStep(r, [pc |-> "steal_tail", head |-> head_, item |-> Null])
  /\ UNCHANGED <<notDeque, head_, tail_, buffer_, ownerLocals, nPush, taken>>

\* tail = tail_.load(acquire); if (head < tail) ... ; otherwise return nullptr
StealLoadTail(r) ==
  /\ r.pc = "steal_tail"
  /\ IF r.head < tail_
       THEN ThiefStep(r, [r EXCEPT !.pc = "steal_item"])
       ELSE ThiefStep(r, IdleThief)
  /\ UNCHANGED <<notDeque, head_, tail_, buffer_, ownerLocals, nPush, taken>>

\* mutant of StealSlot: steal reads the slot after head
StealSlotNext(h) == Mask(h + 1)

\* the slot steal reads its item from
StealSlot(h) == Mask(h)

\* item = buffer_[head & BufferMask_].load(relaxed)
StealLoadItem(r) ==
  /\ r.pc = "steal_item"
  /\ ThiefStep(r, [r EXCEPT !.pc = "steal_cas", !.item = buffer_[StealSlot(r.head)]])
  /\ UNCHANGED <<notDeque, head_, tail_, buffer_, ownerLocals, nPush, taken>>

\* if (!head_.compare_exchange_strong(head, head + 1)) return nullptr;
\* return item
StealCas(r) ==
  /\ r.pc = "steal_cas"
  /\ IF CasHeadSucceeds(r.head)
       THEN /\ head_' = r.head + 1
            /\ taken' = Take("steal", r.item)
       ELSE UNCHANGED <<head_, taken>>
  /\ ThiefStep(r, IdleThief)
  /\ UNCHANGED <<notDeque, tail_, buffer_, ownerLocals, nPush>>

NextDeque ==
  \/ \E kind \in {"try_push", "push"} : PushBegin(kind)
  \/ TryPushFalse
  \/ PushOnFull
  \/ PushStore
  \/ PushPublish
  \/ PopDecrement
  \/ PopLoadHead
  \/ PopLoadItem
  \/ PopCas
  \/ PopRestore
  \/ PopUndo
  \/ \E r \in BagToSet(thieves) : StealLoadHead(r)
  \/ \E r \in BagToSet(thieves) : StealLoadTail(r)
  \/ \E r \in BagToSet(thieves) : StealLoadItem(r)
  \/ \E r \in BagToSet(thieves) : StealCas(r)

SpecDeque == Init /\ [][NextDeque]_vars

\* SpmcQueue::size(): tail >= head ? tail - head : 0
DequeSize == IF tail_ >= head_ THEN tail_ - head_ ELSE 0

\* SpmcQueue::empty(): tail <= head
DequeEmpty == tail_ <= head_

\* the owner alone: no thief ever calls steal
NextOwner ==
  \/ \E kind \in {"try_push", "push"} : PushBegin(kind)
  \/ TryPushFalse
  \/ PushOnFull
  \/ PushStore
  \/ PushPublish
  \/ PopDecrement
  \/ PopLoadHead
  \/ PopLoadItem
  \/ PopCas
  \/ PopRestore
  \/ PopUndo

SpecOwner == Init /\ [][NextOwner]_vars

\* no call is in progress
OwnerIdle == opc = "idle"
ThievesIdle == BagToSet(thieves) = {IdleThief}
Quiescent == OwnerIdle /\ ThievesIdle

\* single-threaded use (the unit test): a call starts only when no other call
\* is in progress, and runs to its return before the next one starts
NextDequeSeq ==
  \/ /\ ThievesIdle
     /\ NextOwner
  \/ /\ OwnerIdle
     /\ \/ ThievesIdle /\ StealLoadHead(IdleThief)
        \/ \E r \in BagToSet(thieves) : StealLoadTail(r)
        \/ \E r \in BagToSet(thieves) : StealLoadItem(r)
        \/ \E r \in BagToSet(thieves) : StealCas(r)

SpecDequeSeq == Init /\ [][NextDequeSeq]_vars

(***************************************************************************)
(* Properties of the work-stealing deque                                   *)
(***************************************************************************)
Max(S) == CHOOSE x \in S : \A y \in S : y <= x
Min(S) == CHOOSE x \in S : \A y \in S : x <= y

Popped == {h \in Handles : taken[h] = "pop"}
Stolen == {h \in Handles : taken[h] = "steal"}

\* this step is the return of a pop call / of a steal call
PopReturnStep == opc \in {"pop_item", "pop_restore", "pop_undo"} /\ opc' = "idle"
StealReturnStep ==
  \E r \in BagToSet(thieves) :
    /\ r.pc \in {"steal_tail", "steal_cas"}
    /\ thieves' = (thieves (-) SetToBag({r})) (+) SetToBag({IdleThief})
\* this step is a steal's successful compare-and-swap on head_
StealCasWinStep == StealReturnStep /\ head_' = head_ + 1

\* the call that returns in this step returns handle h (by = "pop" / "steal"),
\* respectively returns nullptr
Returns(by, h) == taken' = [taken EXCEPT ![h] = by]
ReturnsNull == taken' = taken

\* C1: every non-null handle returned by pop or steal was pushed successfully
\* before, and no handle is returned by more than one pop/steal call, for all
\* interleavings of the owner and the thieves, also after the ring has wrapped.
C1_ExactlyOnce == \A h \in Handles : taken[h] # "again"

\* every pushed handle has been returned, by pops as well as by steals, and
\* head_ has passed the end of the slot array (slot 0 was used a second time)
C1_Witness ==
  /\ nPush = MaxPush
  /\ Live = {}
  /\ Popped # {}
  /\ Stolen # {}
  /\ head_ > BufferSize_

\* C7: in every quiescent state, successful pushes = non-null pops + non-null
\* steals + size(); so with an empty deque pops plus steals equal pushes.
C7_Conservation ==
  Quiescent =>
    /\ nPush = Cardinality(Popped) + Cardinality(Stolen) + DequeSize
    /\ DequeEmpty => Cardinality(Popped) + Cardinality(Stolen) = nPush

\* a quiescent state with two handles left, after a pop and two steals
C7_Witness ==
  /\ Quiescent
  /\ DequeSize = 2
  /\ Cardinality(Popped) >= 1
  /\ Cardinality(Stolen) >= 2

C9_StealFifo ==
  [][StealCasWinStep =>
       /\ Live # {}
       /\ Returns("steal", Min(Live))
       /\ \A h \in Stolen : h < Min(Live)]_vars

\* three handles were stolen, one of them pushed after a handle that the owner
\* popped, and head_ has reached the end of the slot array
C9_Witness ==
  /\ Cardinality(Stolen) >= 3
  /\ Popped # {}
  /\ \E h \in Popped : \E g \in Stolen : h < g
  /\ head_ >= BufferSize_

PushFullPending == opc \in {"push_on_full", "push_false"}

\* C15: try_push returns false, and push invokes on_full (once), exactly when
\* tail - head >= N-1 for the tail and head the owner loaded; such a call
\* stores nothing and leaves head_, tail_ and the slots as they are; any other
\* push stores the handle in slot tail & mask and raises tail_ by one without
\* invoking on_full.  The deque never holds more than N-1 handles.
C15_PushFull ==
  [][/\ (opc = "idle" /\ PushFullPending')
          => (tail_ - head_ >= BufferSize_ - 1 /\ DequeSize = BufferSize_ - 1)
     /\ (opc = "idle" /\ opc' = "push_store")
          => (tail_ - head_ < BufferSize_ - 1 /\ DequeSize < BufferSize_ - 1)
     /\ (PushFullPending /\ PushFullPending') => UNCHANGED <<tail_, buffer_, nPush>>
     /\ (PushFullPending /\ opc' # opc)
          => (opc' = "idle" /\ UNCHANGED <<head_, tail_, buffer_, nPush>>)
     /\ (opc = "push_publish" /\ opc' = "idle")
          => /\ tail_' = tail_ + 1
             /\ nPush' = nPush + 1
             /\ buffer_[Mask(tail_)] = nPush + 1
             /\ UNCHANGED <<head_, buffer_>>
     /\ DequeSize <= BufferSize_ - 1
     /\ Cardinality(Live) <= BufferSize_ - 1]_vars

\* a push found the deque full after head_ and tail_ have moved on: N-1
\* handles are held, pushed after the first handle was stolen or popped
C15_Witness ==
  /\ opc = "push_on_full"
  /\ tail_ - head_ = BufferSize_ - 1
  /\ head_ > 0
  /\ nPush >= BufferSize_

\* the owner is inside pop, after its decrement of tail_
InsidePop == opc \in {"pop_head", "pop_item", "pop_cas", "pop_restore", "pop_undo"}

NoneTwice == \A h \in Handles : taken[h] # "again"

\* C22: last-item race: a pop that finds head == tail (one handle left)
\* competes with the steals for it.  Pop keeps the handle exactly when its
\* compare-and-swap on head_ succeeds; when it fails a steal has returned the
\* handle; a steal that loses its compare-and-swap returns null.  When the
\* pop returns, the handle has been returned by exactly one call, the deque
\* holds nothing and head_ == tail_, whether pop won or lost.
C22_LastItemRace ==
  [][/\ (opc = "pop_cas" /\ opc' = "pop_restore")
          => /\ oItem # Null
             /\ (oItem' # Null) <=> (head_' = head_ + 1)
             /\ oItem' # Null => (oItem' = oItem /\ oItem \in Live)
             /\ oItem' = Null => (taken[oItem] = "steal" /\ UNCHANGED head_)
     /\ (opc = "pop_restore" /\ opc' = "idle")
          => /\ head_' = tail_'
             /\ Live' = {}
             /\ NoneTwice'
             /\ IF oItem = Null THEN ReturnsNull ELSE Returns("pop", oItem)
     /\ (StealReturnStep /\ ~StealCasWinStep) => ReturnsNull
    ]_vars

\* the owner lost the race for the last handle to one thief while the other
\* thief, which read the same head, is about to lose its compare-and-swap
C22_Witness ==
  /\ opc = "pop_restore"
  /\ oItem = Null
  /\ \E r \in BagToSet(thieves) : r.pc = "steal_cas" /\ r.head = oTail
  /\ head_ = oTail + 1
  /\ head_ > BufferSize_

\* the pop in progress was called on an empty deque
PopOfEmpty == popEntry # -1

\* C23: a pop called on an empty deque (head_ == tail_ at the call) returns
\* nullptr through the undo branch, and when it returns head_ and tail_ have
\* the values they had at the call; no step of any thread changes head_ while
\* that pop is in progress, whatever the concurrent steals do.
C23_PopEmpty ==
  [][PopOfEmpty
       => /\ InsidePop
          /\ opc \in {"pop_head", "pop_undo"}
          /\ head_ = popEntry
          /\ head_' = popEntry
          /\ tail_ = popEntry - 1
          /\ opc' = "idle"
               => (opc = "pop_undo" /\ ReturnsNull /\ tail_' = popEntry)
          /\ opc' # "idle" => tail_' = tail_
    ]_vars

\* a pop of an empty deque is about to undo its decrement while a thief that
\* began its steal during the pop has loaded head_ and is about to load tail_
C23_Witness ==
  /\ PopOfEmpty
  /\ opc = "pop_undo"
  /\ popEntry >= BufferSize_
  /\ \E r \in BagToSet(thieves) : r.pc = "steal_tail" /\ r.head = head_
  /\ \E r \in BagToSet(thieves) : r.pc = "steal_cas"

\* this step is pop's successful compare-and-swap on head_
PopCasWinStep == opc = "pop_cas" /\ opc' = "pop_restore" /\ oItem' # Null

\* this step is taken by the owner (no thief moves)
OwnerStep == opc' # opc /\ thieves' = thieves

\* C24: head_ never decreases and changes only by +1, in the successful
\* compare-and-swap of a steal or of pop's last-item case; tail_ changes only
\* in steps of the owner: +1 in the publishing store of a push, -1 in pop's
\* decrement, +1 in pop's restoring store; when pop returns, its decrement has
\* either been kept, and then pop returns a handle taken from the tail end,
\* or been undone.
C24_Counters ==
  [][/\ head_' >= head_
     /\ head_' # head_
          => (head_' = head_ + 1 /\ (StealCasWinStep \/ PopCasWinStep))
     /\ tail_' # tail_
          => /\ OwnerStep
             /\ \/ tail_' = tail_ + 1 /\ opc = "push_publish" /\ nPush' = nPush + 1
                \/ tail_' = tail_ - 1 /\ opc = "idle" /\ opc' = "pop_head"
                \/ tail_' = tail_ + 1 /\ opc \in {"pop_restore", "pop_undo"}
     /\ (opc = "push_publish" /\ opc' = "idle") => tail_' = tail_ + 1
     /\ InsidePop => tail_ = oTail
     /\ PopReturnStep
          => \/ tail_' = oTail /\ opc = "pop_item" /\ ~ReturnsNull
             \/ tail_' = oTail + 1 /\ opc # "pop_item"
    ]_vars

\* pop has won the last handle by its compare-and-swap and is about to
\* restore tail_, after earlier pops and steals, beyond the first lap
C24_Witness ==
  /\ opc = "pop_restore"
  /\ oItem # Null
  /\ head_ = oTail + 1
  /\ tail_ = oTail
  /\ Stolen # {}
  /\ Popped # {}
  /\ head_ > BufferSize_

\* thief r returns from steal in this step
StealReturns(r) ==
  /\ r.pc \in {"steal_tail", "steal_cas"}
  /\ thieves' = (thieves (-) SetToBag({r})) (+) SetToBag({IdleThief})

\* C27: a steal that observed head < tail returns nullptr only if its
\* compare-and-swap on head_ failed, and a pop that observed head == tail
\* loses its item only if its compare-and-swap failed; the compare-and-swap
\* fails only when head_ has moved past the head the caller loaded, i.e. the
\* index was claimed by another call's successful compare-and-swap after that
\* load (head_ moves by one per successful compare-and-swap and never back,
\* so each index is claimed by exactly one call).
C27_LostRace ==
  [][/\ \A r \in BagToSet(thieves) :
          /\ r.pc # "idle" => r.head <= head_
          /\ r.pc = "steal_cas" => r.item # Null
          /\ (r.pc = "steal_cas" /\ StealReturns(r) /\ ReturnsNull)
               => (head_ > r.head /\ UNCHANGED head_)
          /\ (r.pc = "steal_cas" /\ StealReturns(r) /\ ~ReturnsNull)
               => (head_ = r.head /\ head_' = head_ + 1)
     /\ opc \in {"pop_item", "pop_cas"} => oHead <= head_
     /\ (opc = "pop_cas" /\ opc' = "pop_restore")
          => /\ oItem # Null
             /\ oItem' = Null => (head_ = oHead + 1 /\ UNCHANGED head_)
             /\ oItem' # Null => (head_ = oHead /\ head_' = head_ + 1)
     /\ head_' \in {head_, head_ + 1}
    ]_vars

\* a thief is about to lose its compare-and-swap, and so to return nullptr,
\* while the deque holds handles
C27_Witness ==
  /\ \E r \in BagToSet(thieves) : r.pc = "steal_cas" /\ r.head < head_
  /\ tail_ > head_
  /\ Live # {}
  /\ OwnerIdle

(***************************************************************************)
(* Ring queue operations: src/Queue.h                                      *)
(***************************************************************************)
\* one consumer moves from local state r to local state r2
ConsumerStep(r, r2) ==
  consumers' = (consumers (-) SetToBag({r})) (+) SetToBag({r2})

\* the queue holds no item when its indices are h and t, nd values have been
\* delivered and ne enqueued: empty() holds, or every enqueued value has been
\* delivered
HoldsNothing(h, t, nd, ne) == h = t \/ nd >= ne

\* history: a consumer inside a call records that the queue is empty
NoteEmpty(x, isEmpty) ==
  IF isEmpty /\ x.pc # "idle" THEN [x EXCEPT !.sawEmpty = TRUE] ELSE x

\* the consumers after a step that leaves the queue empty or not
NoteEmptyAll(B, isEmpty) == BagOfAll(LAMBDA x : NoteEmpty(x, isEmpty), B)

(* ---- producer: enqueue ------------------------------------------------- *)
\* size_t currentTail = tail.load(acquire)
EnqLoadTail ==
  /\ ppc = "idle"
  /\ nEnq < MaxEnq
  /\ currentTail' = tail
  /\ ppc' = "enq_check"
  /\ UNCHANGED <<notRing, head, tail, data, consumers, nEnq, deliv>>

\* nextTail = (currentTail + 1) & mask
NextIndex(i) == RingMask(i + 1)

\* mutant of RingIsFull: the guard slot is given up
RingNeverFull(nextTail, h) == FALSE

\* the fullness test of enqueue on nextTail and the head it loads
RingIsFull(nextTail, h) == nextTail = h

\* if (nextTail == head.load(acquire)) return false;
EnqCheck ==
  /\ ppc = "enq_check"
  /\ IF RingIsFull(NextIndex(currentTail), head)
       THEN /\ ppc' = "idle"
            /\ currentTail' = 0
       ELSE /\ ppc' = "enq_write"
            /\ UNCHANGED currentTail
  /\ UNCHANGED <<notRing, head, tail, data, consumers, nEnq, deliv>>

\* data[currentTail] = value
EnqWrite ==
  /\ ppc = "enq_write"
  /\ data' = [data EXCEPT ![currentTail] = nEnq + 1]
  /\ ppc' = "enq_cas"
  /\ UNCHANGED <<notRing, head, tail, currentTail, consumers, nEnq, deliv>>

\* tail.compare_exchange_weak(currentTail, nextTail): on success return true;
\* on failure (the value differs, or spuriously) currentTail becomes the value
\* read and the loop runs again
EnqCas ==
  /\ ppc = "enq_cas"
  /\ \/ /\ tail = currentTail
        /\ tail' = NextIndex(currentTail)
        /\ nEnq' = nEnq + 1
        /\ ppc' = "idle"
        /\ currentTail' = 0
        /\ consumers' =
             NoteEmptyAll(consumers,
                          HoldsNothing(head, NextIndex(currentTail),
                                       Len(deliv), nEnq + 1))
     \/ /\ currentTail' = tail
        /\ ppc' = "enq_check"
        /\ UNCHANGED <<tail, nEnq, consumers>>
  /\ UNCHANGED <<notRing, head, data, deliv>>

(* ---- consumers: dequeue (and SPMCQueue::steal, which has the same body) - *)
\* size_t currentHead = head.load(acquire)
DeqLoadHead(r) ==
  /\ r.pc = "idle"
  /\ ConsumerStep(r, [r EXCEPT !.pc = "deq_tail", !.currentHead = head,
                               !.sawEmpty =
                                 HoldsNothing(head, tail, Len(deliv), nEnq)])
  /\ UNCHANGED <<notRing, head, tail, data, ppc, currentTail, nEnq, deliv>>

\* currentTail = tail.load(acquire); if (currentHead == currentTail) return false;
DeqLoadTail(r) ==
  /\ r.pc = "deq_tail"
  /\ IF r.currentHead = tail
       THEN ConsumerStep(r, [r EXCEPT !.pc = "idle", !.currentHead = 0,
                                      !.sawEmpty = FALSE])
       ELSE ConsumerStep(r, [r EXCEPT !.pc = "deq_read"])
  /\ UNCHANGED <<notRing, head, tail, data, ppc, currentTail, nEnq, deliv>>

\* mutant of DeqSlot: dequeue reads the slot after currentHead
DeqSlotNext(h) == RingMask(h + 1)

\* the slot dequeue copies into result
DeqSlot(h) == h

\* result = data[currentHead]
DeqRead(r) ==
  /\ r.pc = "deq_read"
  /\ ConsumerStep(r, [r EXCEPT !.pc = "deq_cas",
                               !.result = data[DeqSlot(r.currentHead)]])
  /\ UNCHANGED <<notRing, head, tail, data, ppc, currentTail, nEnq, deliv>>

\* head.compare_exchange_weak(expected, desired): can it succeed?
CasHeadWeakSucceeds(expected) == head = expected

\* nextHead = (currentHead + 1) & mask;
\* head.compare_exchange_weak(currentHead, nextHead): on success return true;
\* on failure (the value differs, or spuriously) currentHead becomes the value
\* read and the loop runs again from the load of tail
DeqCas(r) ==
  /\ r.pc = "deq_cas"
  /\ \/ /\ CasHeadWeakSucceeds(r.currentHead)
        /\ head' = NextIndex(r.currentHead)
        /\ deliv' = Append(deliv, r.result)
        /\ consumers' =
             NoteEmptyAll(
               (consumers (-) SetToBag({r}))
                 (+) SetToBag({[r EXCEPT !.pc = "idle", !.currentHead = 0,
                                         !.sawEmpty = FALSE,
                                         !.recv = Append(r.recv, r.result)]}),
               HoldsNothing(NextIndex(r.currentHead), tail,
                            Len(deliv) + 1, nEnq))
     \/ /\ ConsumerStep(r, [r EXCEPT !.pc = "deq_tail", !.currentHead = head])
        /\ UNCHANGED <<head, deliv>>
  /\ UNCHANGED <<notRing, tail, data, ppc, currentTail, nEnq>>

\* SPMCQueue: one producer, NumConsumers consumers
NextSpmc ==
  \/ EnqLoadTail
  \/ EnqCheck
  \/ EnqWrite
  \/ EnqCas
  \/ \E r \in BagToSet(consumers) : DeqLoadHead(r)
  \/ \E r \in BagToSet(consumers) : DeqLoadTail(r)
  \/ \E r \in BagToSet(consumers) : DeqRead(r)
  \/ \E r \in BagToSet(consumers) : DeqCas(r)

SpecSpmc == Init /\ [][NextSpmc]_vars

\* SPSCQueue::enqueue and SPSCQueue::dequeue (the code of SPMCQueue's)
SpscEnqueue == EnqLoadTail \/ EnqCheck \/ EnqWrite \/ EnqCas
SpscDequeue ==
  \E r \in BagToSet(consumers) :
    DeqLoadHead(r) \/ DeqLoadTail(r) \/ DeqRead(r) \/ DeqCas(r)

\* SPSCQueue: one producer, one consumer
NextSpsc == SpscEnqueue \/ SpscDequeue

SpecSpsc == InitSpsc /\ [][NextSpsc]_vars

\* empty(): head.load() == tail.load()
RingEmpty == head = tail

\* size(): (currentTail - currentHead + Capacity) & mask
RingSize == RingMask(tail - head + Capacity)

(***************************************************************************)
(* Properties of the ring queues                                           *)
(***************************************************************************)
ProducerIdle == ppc = "idle"
ConsumersIdle == \A r \in BagToSet(consumers) : r.pc = "idle"

StrictlyIncreasing(q) == \A i, j \in DOMAIN q : i < j => q[i] < q[j]

\* C2: SPMCQueue with one producer and several consumers: each enqueued value
\* is returned by at most one successful dequeue, the i-th dequeue to claim a
\* position returns the i-th enqueued value, and once production has stopped
\* and the queue is drained every enqueued value has been returned exactly once.
C2_ExactlyOnce ==
  /\ \A i, j \in DOMAIN deliv : i # j => deliv[i] # deliv[j]
  /\ \A i \in DOMAIN deliv : deliv[i] = i
  /\ (nEnq = MaxEnq /\ ProducerIdle /\ ConsumersIdle /\ RingEmpty)
       => {deliv[i] : i \in DOMAIN deliv} = 1 .. MaxEnq

\* C3: SPSCQueue with one producer and one consumer: the values returned by
\* successful dequeues are always a prefix of the enqueued values 1, 2, ...,
\* and when all of them have been dequeued the queue is empty.
C3_SpscFifo ==
  /\ Len(deliv) <= nEnq
  /\ \A i \in DOMAIN deliv : deliv[i] = i
  /\ Len(deliv) = nEnq => RingEmpty

\* all values went through the queue, more of them than the ring has slots
C3_Witness ==
  /\ nEnq = MaxEnq
  /\ MaxEnq > Capacity
  /\ deliv = [i \in 1 .. MaxEnq |-> i]
  /\ RingEmpty

\* C6: the values one consumer obtains from its successive successful dequeues
\* appear in the order in which the producer enqueued them.
C6_PerConsumerOrder ==
  \A r \in BagToSet(consumers) : StrictlyIncreasing(r.recv)

\* the caller's variable as a consumer's successful dequeues left it
LastReceived(r) == IF r.recv = <<>> THEN 0 ELSE r.recv[Len(r.recv)]

\* C17: an operation that reports non-success has no observable effect: a
\* dequeue (or steal) that returned false, also after losing compare-and-swap
\* races, leaves the caller's result variable as it was (the value of the
\* caller's last successful dequeue, or its initial value), and an enqueue
\* that returned false has written no slot (the slots hold only values of
\* successful enqueues).
C17_NoPartialCompletion ==
  /\ \A r \in BagToSet(consumers) : r.pc = "idle" => r.result = LastReceived(r)
  /\ ProducerIdle => \A i \in DOMAIN data : data[i] <= nEnq

\* C18: dequeue (and steal) returns false only if the queue was empty at some
\* instant between the call's invocation and its return: a consumer about to
\* return false (its currentHead equals the tail it loads) has seen the queue
\* empty during its call or sees it empty now.  Likewise enqueue returns false
\* only when the queue holds N-1 items.
C18_FalseOnlyIfEmpty ==
  /\ \A r \in BagToSet(consumers) :
        (r.pc = "deq_tail" /\ r.currentHead = tail)
          => (r.sawEmpty \/ HoldsNothing(head, tail, Len(deliv), nEnq))
  /\ (ppc = "enq_check" /\ RingIsFull(NextIndex(currentTail), head))
        => RingSize = Capacity - 1

\* the slots of the ring whose indices lie in the unclaimed range [h, t)
RingRange(h, t) == {RingMask(h + k) : k \in 0 .. RingMask(t - h + Capacity) - 1}

\* C25: publication ordering in SPMCQueue: when enqueue advances tail past an
\* index, the slot of that index holds the value being enqueued; the producer
\* never writes a slot in the unclaimed range [head, tail); and a consumer
\* whose claim of an index succeeds returns the value written for that index,
\* the next value in enqueue order.
C25_Publication ==
  [][/\ nEnq' = nEnq + 1
          => (data[currentTail] = nEnq + 1 /\ tail' = NextIndex(currentTail))
     /\ data' # data => currentTail \notin RingRange(head, tail)
     /\ deliv' # deliv => deliv' = Append(deliv, Len(deliv) + 1)
    ]_vars

(***************************************************************************)
(* cpputils::SpscQueue operations: src/include/SpscQueue.h                 *)
(***************************************************************************)
\* x & (capacity_ - 1) for the capacity c read
SqMask(x, c) == x % c

\* mutant of PeekSlot: peek points to the slot after the head
PeekSlotNext(h, c) == (h + 1) % c

\* the slot peek() returns a pointer to: buffer_[head_ & (capacity_ - 1)]
PeekSlot(h, c) == h % c

\* mutant of SqHasRoom: the fullness test is dropped
SqAlwaysRoom(nextTail, h) == TRUE

\* inner_enqueue: if (nextTail != head_) ...
SqHasRoom(nextTail, h) == nextTail # h

(* ---- producer: inner_enqueue<canAlloc> ---------------------------------- *)
\* head_.load(); tail_.load(); nextTail = (tail_ + 1) & (capacity_ - 1);
\* room: go on to write the slot; full: resize() if canAlloc, else return false
EnqueueBegin(canAlloc) ==
  /\ \/ epc = "idle" /\ sqEnq < MaxSqEnq
     \/ epc = "enq_again" /\ canAlloc
  /\ IF SqHasRoom(SqMask(sq_tail_ + 1, capacity_), sq_head_)
       THEN /\ epc' = "enq_write"
            /\ eTail' = sq_tail_
            /\ eHead' = 0
       ELSE IF canAlloc
         THEN /\ epc' = "resize_load"
              /\ UNCHANGED <<eHead, eTail>>
         ELSE /\ epc' = "idle"
              /\ UNCHANGED <<eHead, eTail>>
  /\ UNCHANGED <<notSq, sq_head_, sq_tail_, capacity_, sq_buffer_, new_buffer,
                 dpc, dHead, result, peeked, sqEnq, sqDeliv>>

\* location = &buffer_[tail_ & (capacity_ - 1)]; new (location) T(args...)
EnqueueWrite ==
  /\ epc = "enq_write"
  /\ sq_buffer_' = [sq_buffer_ EXCEPT ![SqMask(eTail, capacity_)] = sqEnq + 1]
  /\ epc' = "enq_publish"
  /\ UNCHANGED <<notSq, sq_head_, sq_tail_, capacity_, eHead, eTail, new_buffer,
                 dpc, dHead, result, peeked, sqEnq, sqDeliv>>

\* tail_.store(nextTail); return true
EnqueuePublish ==
  /\ epc = "enq_publish"
  /\ sq_tail_' = SqMask(eTail + 1, capacity_)
  /\ sqEnq' = sqEnq + 1
  /\ epc' = "idle"
  /\ eTail' = 0
  /\ UNCHANGED <<notSq, sq_head_, capacity_, sq_buffer_, eHead, new_buffer,
                 dpc, dHead, result, peeked, sqDeliv>>

(* ---- producer: resize ---------------------------------------------------- *)
\* new_capacity = capacity_ * 2; std::vector<T> new_buffer(new_capacity);
\* head_.load(acquire); tail_.load(acquire)
ResizeLoad ==
  /\ epc = "resize_load"
  /\ new_buffer' = NewVector(capacity_ * 2)
  /\ eHead' = sq_head_
  /\ eTail' = sq_tail_
  /\ epc' = "resize_copy"
  /\ UNCHANGED <<notSq, sq_head_, sq_tail_, capacity_, sq_buffer_,
                 dpc, dHead, result, peeked, sqEnq, sqDeliv>>

\* mutant of ResizeSize: the difference is not masked
ResizeSizeUnmasked == eTail - eHead

\* size = (tail_ - head_) & (capacity_ - 1)
ResizeSize == SqMask(eTail - eHead, capacity_)

\* for (i = 0; i < size; ++i)
\*   new_buffer[i] = std::move(buffer_[(head_ + i) & (capacity_ - 1)]);
ResizeCopy ==
  /\ epc = "resize_copy"
  /\ new_buffer' = [i \in DOMAIN new_buffer |->
                      IF i < ResizeSize
                        THEN sq_buffer_[SqMask(eHead + i, capacity_)]
                        ELSE new_buffer[i]]
  /\ epc' = "resize_head"
  /\ UNCHANGED <<notSq, sq_head_, sq_tail_, capacity_, sq_buffer_, eHead, eTail,
                 dpc, dHead, result, peeked, sqEnq, sqDeliv>>

\* head_.store(0, release)
ResizeStoreHead ==
  /\ epc = "resize_head"
  /\ sq_head_' = 0
  /\ epc' = "resize_tail"
  /\ UNCHANGED <<notSq, sq_tail_, capacity_, sq_buffer_, eHead, eTail, new_buffer,
                 dpc, dHead, result, peeked, sqEnq, sqDeliv>>

\* tail_.store(size, release)
ResizeStoreTail ==
  /\ epc = "resize_tail"
  /\ sq_tail_' = ResizeSize
  /\ epc' = "resize_capacity"
  /\ UNCHANGED <<notSq, sq_head_, capacity_, sq_buffer_, eHead, eTail, new_buffer,
                 dpc, dHead, result, peeked, sqEnq, sqDeliv>>

\* capacity_ = new_capacity
ResizeSetCapacity ==
  /\ epc = "resize_capacity"
  /\ capacity_' = capacity_ * 2
  /\ epc' = "resize_swap"
  /\ UNCHANGED <<notSq, sq_head_, sq_tail_, sq_buffer_, eHead, eTail, new_buffer,
                 dpc, dHead, result, peeked, sqEnq, sqDeliv>>

\* buffer_.swap(new_buffer); back in inner_enqueue:
\* return inner_enqueue<CanAlloc>(args...)
ResizeSwap ==
  /\ epc = "resize_swap"
  /\ sq_buffer_' = new_buffer
  /\ new_buffer' = <<>>
  /\ eHead' = 0
  /\ eTail' = 0
  /\ epc' = "enq_again"
  /\ UNCHANGED <<notSq, sq_head_, sq_tail_, capacity_,
                 dpc, dHead, result, peeked, sqEnq, sqDeliv>>

(* ---- consumer: try_dequeue ---------------------------------------------- *)
\* auto head_ = head_.load()
DequeueLoadHead ==
  /\ dpc = "idle"
  /\ Len(sqDeliv) < MaxSqEnq
  /\ dHead' = sq_head_
  /\ dpc' = "deq_tail"
  /\ UNCHANGED <<notSq, sq_head_, sq_tail_, capacity_, sq_buffer_, epc, eHead,
                 eTail, new_buffer, result, peeked, sqEnq, sqDeliv>>

\* auto tail_ = tail_.load(); if (head_ != tail_) ... else return false
DequeueLoadTail ==
  /\ dpc = "deq_tail"
  /\ IF dHead # sq_tail_
       THEN /\ dpc' = "deq_read"
            /\ UNCHANGED dHead
       ELSE /\ dpc' = "idle"
            /\ dHead' = 0
  /\ UNCHANGED <<notSq, sq_head_, sq_tail_, capacity_, sq_buffer_, epc, eHead,
                 eTail, new_buffer, result, peeked, sqEnq, sqDeliv>>

\* the values a read of buffer_[i] can yield: the element, or, when i lies
\* beyond the vector (undefined behaviour), any value
ReadSlot(i) ==
  IF i \in DOMAIN sq_buffer_ THEN {sq_buffer_[i]} ELSE 0 .. MaxSqEnq

\* element = &buffer_[head_ & (capacity_ - 1)]; result = std::move(*element);
\* element->~T()
DequeueRead ==
  /\ dpc = "deq_read"
  /\ \E v \in ReadSlot(SqMask(dHead, capacity_)) : result' = v
  /\ dpc' = "deq_store"
  /\ UNCHANGED <<notSq, sq_head_, sq_tail_, capacity_, sq_buffer_, epc, eHead,
                 eTail, new_buffer, dHead, peeked, sqEnq, sqDeliv>>

\* head_.store((head_ + 1) & (capacity_ - 1)); return true
DequeueStore ==
  /\ dpc = "deq_store"
  /\ sq_head_' = SqMask(dHead + 1, capacity_)
  /\ sqDeliv' = Append(sqDeliv, result)
  /\ peeked' = -1
  /\ dpc' = "idle"
  /\ dHead' = 0
  /\ UNCHANGED <<notSq, sq_tail_, capacity_, sq_buffer_, epc, eHead, eTail,
                 new_buffer, result, sqEnq>>

(* ---- consumer: peek ------------------------------------------------------ *)
\* auto head_ = head_.load()
PeekLoadHead ==
  /\ dpc = "idle"
  /\ dHead' = sq_head_
  /\ dpc' = "peek_tail"
  /\ UNCHANGED <<notSq, sq_head_, sq_tail_, capacity_, sq_buffer_, epc, eHead,
                 eTail, new_buffer, result, peeked, sqEnq, sqDeliv>>

\* auto tail_ = tail_.load();
\* if (head_ != tail_) return &buffer_[head_ & (capacity_ - 1)]; return nullptr
PeekLoadTail ==
  /\ dpc = "peek_tail"
  /\ peeked' = IF dHead # sq_tail_ THEN PeekSlot(dHead, capacity_) ELSE -1
  /\ dpc' = "idle"
  /\ dHead' = 0
  /\ UNCHANGED <<notSq, sq_head_, sq_tail_, capacity_, sq_buffer_, epc, eHead,
                 eTail, new_buffer, result, sqEnq, sqDeliv>>

(* ---- consumer: pop ------------------------------------------------------- *)
\* auto head_ = head_.load()
SqPopLoadHead ==
  /\ dpc = "idle"
  /\ Len(sqDeliv) < MaxSqEnq
  /\ dHead' = sq_head_
  /\ dpc' = "pop_tail"
  /\ UNCHANGED <<notSq, sq_head_, sq_tail_, capacity_, sq_buffer_, epc, eHead,
                 eTail, new_buffer, result, peeked, sqEnq, sqDeliv>>

\* auto tail_ = tail_.load(); if (head_ != tail_) ... else return false
SqPopLoadTail ==
  /\ dpc = "pop_tail"
  /\ IF dHead # sq_tail_
       THEN /\ dpc' = "pop_destroy"
            /\ UNCHANGED dHead
       ELSE /\ dpc' = "idle"
            /\ dHead' = 0
  /\ UNCHANGED <<notSq, sq_head_, sq_tail_, capacity_, sq_buffer_, epc, eHead,
                 eTail, new_buffer, result, peeked, sqEnq, sqDeliv>>

\* element = &buffer_[head_ & (capacity_ - 1)]; element->~T()
SqPopDestroy ==
  /\ dpc = "pop_destroy"
  /\ dpc' = "pop_store"
  /\ UNCHANGED <<notSq, sq_head_, sq_tail_, capacity_, sq_buffer_, epc, eHead,
                 eTail, new_buffer, dHead, result, peeked, sqEnq, sqDeliv>>

\* head_.store((head_ + 1) & (capacity_ - 1)); return true.  The history
\* records the element that was removed; the pointer peek() gave is dead.
SqPopStore ==
  /\ dpc = "pop_store"
  /\ sq_head_' = SqMask(dHead + 1, capacity_)
  /\ \E v \in ReadSlot(SqMask(dHead, capacity_)) : sqDeliv' = Append(sqDeliv, v)
  /\ peeked' = -1
  /\ dpc' = "idle"
  /\ dHead' = 0
  /\ UNCHANGED <<notSq, sq_tail_, capacity_, sq_buffer_, epc, eHead, eTail,
                 new_buffer, result, sqEnq>>

\* the non-growing path: try_enqueue / try_emplace against try_dequeue
NextSqTry ==
  \/ EnqueueBegin(FALSE)
  \/ EnqueueWrite
  \/ EnqueuePublish
  \/ DequeueLoadHead
  \/ DequeueLoadTail
  \/ DequeueRead
  \/ DequeueStore

SpecSqTry == Init /\ [][NextSqTry]_vars

\* the allocation-permitted path: enqueue / emplace against try_dequeue
NextSqGrow ==
  \/ EnqueueBegin(TRUE)
  \/ EnqueueWrite
  \/ EnqueuePublish
  \/ ResizeLoad
  \/ ResizeCopy
  \/ ResizeStoreHead
  \/ ResizeStoreTail
  \/ ResizeSetCapacity
  \/ ResizeSwap
  \/ DequeueLoadHead
  \/ DequeueLoadTail
  \/ DequeueRead
  \/ DequeueStore

SpecSqGrow == Init /\ [][NextSqGrow]_vars

\* the consumer's three operations against the non-growing producer
NextSqPeek ==
  \/ NextSqTry
  \/ PeekLoadHead
  \/ PeekLoadTail
  \/ SqPopLoadHead
  \/ SqPopLoadTail
  \/ SqPopDestroy
  \/ SqPopStore

SpecSqPeek == Init /\ [][NextSqPeek]_vars

\* empty(): head_.load() == tail_.load()
SqEmpty == sq_head_ = sq_tail_

\* size(): (tail_.load() - head_.load()) & (capacity_ - 1)
SqSize == SqMask(sq_tail_ - sq_head_, capacity_)

(***************************************************************************)
(* Properties of cpputils::SpscQueue                                       *)
(***************************************************************************)
\* the positions (counted from the first enqueue) enqueued and not yet
\* dequeued, and the slots that hold them
Unconsumed == Len(sqDeliv) .. sqEnq - 1
UnconsumedSlots == {SqMask(p, capacity_) : p \in Unconsumed}

RemovesOldest ==
  /\ sq_head_' = SqMask(sq_head_ + 1, capacity_)
  /\ sqDeliv' = Append(sqDeliv, Len(sqDeliv) + 1)
  /\ sq_buffer_[SqMask(sq_head_, capacity_)] = Len(sqDeliv) + 1
  /\ SqSize' = SqSize - 1
  /\ UNCHANGED <<sq_tail_, sq_buffer_, capacity_>>

\* this step belongs to the consumer
ConsumerStepSq == dpc' # dpc

\* C26: SpscQueue consumer side: peek() changes neither head_, tail_, size()
\* nor any slot; it returns nullptr exactly when the queue is empty and
\* otherwise a pointer to the oldest element; pop() returns false on an empty
\* queue without changing anything, and otherwise removes the oldest element,
\* the one a preceding peek() pointed to; try_dequeue removes the same
\* element in the same way and its result is the value peek() pointed to.
C26_PeekPop ==
  [][/\ (ConsumerStepSq /\ dpc \in {"idle", "peek_tail", "pop_tail", "pop_destroy"})
          => UNCHANGED <<sq_head_, sq_tail_, sq_buffer_, capacity_, sqDeliv>>
     /\ (dpc = "peek_tail" /\ ConsumerStepSq)
          => /\ (peeked' = -1) <=> SqEmpty
             /\ peeked' # -1
                  => /\ peeked' = SqMask(sq_head_, capacity_)
                     /\ sq_buffer_[peeked'] = Len(sqDeliv) + 1
     /\ (dpc = "pop_tail" /\ dpc' = "idle") => SqEmpty
     /\ (dpc = "pop_tail" /\ dpc' = "pop_destroy") => ~SqEmpty
     /\ (dpc = "pop_store" /\ ConsumerStepSq)
          => /\ RemovesOldest
             /\ peeked # -1 => peeked = SqMask(sq_head_, capacity_)
     /\ (dpc = "deq_store" /\ ConsumerStepSq)
          => /\ RemovesOldest
             /\ result = Len(sqDeliv) + 1
             /\ peeked # -1 => sq_buffer_[peeked] = result
     /\ peeked # -1
          => (~SqEmpty /\ peeked = SqMask(sq_head_, capacity_)
              /\ sq_buffer_[peeked] = Len(sqDeliv) + 1)
    ]_vars

\* pop() is about to remove the element a peek() designated, in a queue whose
\* occupied range wraps, while the producer is inside try_enqueue
C26_Witness ==
  /\ dpc = "pop_store"
  /\ peeked = SqMask(dHead, capacity_)
  /\ sq_tail_ < sq_head_
  /\ epc = "enq_publish"
  /\ Len(sqDeliv) >= 2

(***************************************************************************)
(* Progress of SPMCQueue::dequeue                                          *)
(***************************************************************************)
\* a consumer; w marks the one whose call is followed
LiveConsumer(w) ==
  [pc |-> "idle", currentHead |-> 0, result |-> 0, recv |-> <<>>,
   sawEmpty |-> FALSE, watched |-> w]

\* the constructed queue with the followed consumer and NumConsumers - 1 others
InitLive ==
  /\ InitDeque
  /\ InitSq
  /\ ctor = NoCtor
  /\ InitPool
  /\ head = 0
  /\ tail = 0
  /\ data = [i \in 0 .. Capacity - 1 |-> 0]
  /\ ppc = "idle"
  /\ currentTail = 0
  /\ consumers = SetToBag({LiveConsumer(TRUE)})
                   (+) [r \in {LiveConsumer(FALSE)} |-> NumConsumers - 1]
  /\ nEnq = 0
  /\ deliv = <<>>

\* tail.compare_exchange_weak(currentTail, nextTail) without the histories;
\* it fails only when tail differs from currentTail
LiveEnqCas ==
  /\ ppc = "enq_cas"
  /\ IF tail = currentTail
       THEN /\ tail' = NextIndex(currentTail)
            /\ ppc' = "idle"
            /\ currentTail' = 0
       ELSE /\ currentTail' = tail
            /\ ppc' = "enq_check"
            /\ UNCHANGED tail
  /\ UNCHANGED <<notRing, head, data, consumers, nEnq, deliv>>

\* head.compare_exchange_weak(currentHead, nextHead) without the histories;
\* it fails only when head differs from currentHead, and the loop runs again
\* from the load of tail
LiveDeqCas(r) ==
  /\ r.pc = "deq_cas"
  /\ IF CasHeadWeakSucceeds(r.currentHead)
       THEN /\ head' = NextIndex(r.currentHead)
            /\ ConsumerStep(r, [r EXCEPT !.pc = "idle", !.currentHead = 0,
                                         !.result = 0, !.sawEmpty = FALSE])
       ELSE /\ ConsumerStep(r, [r EXCEPT !.pc = "deq_tail",
                                         !.currentHead = head])
            /\ UNCHANGED head
  /\ UNCHANGED <<notRing, tail, data, ppc, currentTail, nEnq, deliv>>

\* the steps of a dequeue call once it has begun
InsideDequeue(r) == DeqLoadTail(r) \/ DeqRead(r) \/ LiveDeqCas(r)

NextLive ==
  \/ EnqLoadTail
  \/ EnqCheck
  \/ EnqWrite
  \/ LiveEnqCas
  \/ \E r \in BagToSet(consumers) : DeqLoadHead(r)
  \/ \E r \in BagToSet(consumers) : DeqLoadTail(r)
  \/ \E r \in BagToSet(consumers) : DeqRead(r)
  \/ \E r \in BagToSet(consumers) : LiveDeqCas(r)

\* the followed consumer's thread keeps being scheduled while it is in a call
VictimStep == \E r \in BagToSet(consumers) : r.watched /\ InsideDequeue(r)

SpecSpmcLive == InitLive /\ [][NextLive]_vars /\ WF_vars(VictimStep)

VictimInCall == \E r \in BagToSet(consumers) : r.watched /\ r.pc # "idle"
VictimIdle == \E r \in BagToSet(consumers) : r.watched /\ r.pc = "idle"

\* C20: no operation blocks: an SPMCQueue::dequeue call by one consumer
\* eventually returns under weak fairness of that consumer, even while the
\* producer keeps enqueueing and the other consumers keep dequeuing.
C20_DequeueReturns == VictimInCall ~> VictimIdle

(***************************************************************************)
(* Sequential use of the ring queues                                       *)
(***************************************************************************)
\* SPMCQueue::full() / SPSCQueue::full(): ((tail + 1) & mask) == head
RingFull == NextIndex(tail) = head

\* SpscQueue::full(): ((tail_ + 1) & (capacity_ - 1)) == head_
SqFull == SqMask(sq_tail_ + 1, capacity_) = sq_head_

\* one caller at a time on the fixed-capacity ring
NextRingSeq ==
  \/ ConsumersIdle /\ SpscEnqueue
  \/ ProducerIdle /\ SpscDequeue

\* one caller at a time on SpscQueue, non-growing path
NextSqTrySeq ==
  \/ dpc = "idle" /\ (EnqueueBegin(FALSE) \/ EnqueueWrite \/ EnqueuePublish)
  \/ epc = "idle" /\ (DequeueLoadHead \/ DequeueLoadTail \/ DequeueRead
                        \/ DequeueStore)

NextSeqTry == NextRingSeq \/ NextSqTrySeq

SpecSeqTry == InitSpsc /\ [][NextSeqTry]_vars

\* no call is in progress on the ring / on the SpscQueue
RingQuiet == ProducerIdle /\ ConsumersIdle
SqQuiet == epc = "idle" /\ dpc = "idle"

RingCapacity == Capacity

\* SpscQueue::capacity(): return capacity_ - 1
SqCapacity == capacity_ - 1

\* SpmcQueue::capacity(): BufferSize_ - 1
DequeCapacity == BufferSize_ - 1

\* C12: capacity() returns N-1 for every variant, the largest value size()
\* can reach: size() never exceeds capacity(), and a full queue holds
\* capacity() items.
C12_CapacityIsLargestSize ==
  /\ RingSize <= RingCapacity
  /\ (RingQuiet /\ RingFull) => RingSize = RingCapacity
  /\ SqSize <= SqCapacity
  /\ (SqQuiet /\ SqFull) => SqSize = SqCapacity
  /\ DequeSize <= DequeCapacity

(***************************************************************************)
(* Sequential use of SpscQueue with growth                                 *)
(***************************************************************************)
\* the queue of the dynamic-resizing test
InitSqTest ==
  /\ InitDeque
  /\ InitRing(1)
  /\ InitSqWith(TestCapacity)
  /\ ctor = NoCtor
  /\ InitPool

\* one caller at a time: enqueue / emplace (allocation permitted), try_dequeue
NextSqGrowSeq ==
  \/ dpc = "idle" /\ EnqueueBegin(TRUE)
  \/ EnqueueWrite
  \/ EnqueuePublish
  \/ ResizeLoad
  \/ ResizeCopy
  \/ ResizeStoreHead
  \/ ResizeStoreTail
  \/ ResizeSetCapacity
  \/ ResizeSwap
  \/ epc = "idle" /\ DequeueLoadHead
  \/ DequeueLoadTail
  \/ DequeueRead
  \/ DequeueStore

SpecSqGrowSeq == InitSqTest /\ [][NextSqGrowSeq]_vars

\* the k-th item held, counted from the head
SqItem(k) == sq_buffer_[SqMask(sq_head_ + k, capacity_)]

RECURSIVE BitAnd(_, _)
BitAnd(a, b) ==
  IF a = 0 \/ b = 0 THEN 0
  ELSE (a % 2) * (b % 2) + 2 * BitAnd(a \div 2, b \div 2)

\* x - 1 in size_t arithmetic (0 - 1 wraps to the largest value)
SizeMinusOne(x) == (x - 1) % Pow2(SizeBits)

\* the classes of src/Queue.h
RingKinds == {"SPMCQueue", "SPSCQueue"}

\* an object at the start of its constructor
CtorStart(kind, arg) ==
  [kind |-> kind, arg |-> arg, pc |-> "start", mask |-> -1, slots |-> -1,
   head |-> -1, tail |-> -1]

\* SPMCQueue<T, Capacity>, SPSCQueue<T, Capacity>, SpscQueue<T, INITIAL_CAPACITY>
\* and SpmcQueue<T, LogSize> for every template argument up to the bounds
InitCtor ==
  /\ InitDeque
  /\ InitRing(1)
  /\ InitSq
  /\ InitPool
  /\ ctor \in {CtorStart(k, n) : k \in RingKinds \cup {"SpscQueue"},
                                  n \in 0 .. MaxCtorArg}
            \cup {CtorStart("SpmcQueue", n) : n \in 0 .. MaxCtorLog}

\* the slot count the object is constructed with
SlotCount ==
  IF ctor.kind = "SpmcQueue" THEN Pow2(ctor.arg) ELSE ctor.arg

\* SPMCQueue() : mask(Capacity - 1)
CtorRingMask ==
  /\ ctor.kind \in RingKinds
  /\ ctor.pc = "start"
  /\ ctor' = [ctor EXCEPT !.mask = SizeMinusOne(ctor.arg), !.pc = "check"]
  /\ UNCHANGED notCtor

\* if (Capacity & mask) throw std::invalid_argument(...)
CtorRingCheck ==
  /\ ctor.kind \in RingKinds
  /\ ctor.pc = "check"
  /\ ctor' = [ctor EXCEPT !.pc = IF BitAnd(ctor.arg, ctor.mask) # 0
                                   THEN "thrown" ELSE "resize"]
  /\ UNCHANGED notCtor

\* data.resize(Capacity)
CtorRingResize ==
  /\ ctor.kind \in RingKinds
  /\ ctor.pc = "resize"
  /\ ctor' = [ctor EXCEPT !.slots = ctor.arg, !.pc = "store_head"]
  /\ UNCHANGED notCtor

\* head.store(0, relaxed)
CtorRingStoreHead ==
  /\ ctor.kind \in RingKinds
  /\ ctor.pc = "store_head"
  /\ ctor' = [ctor EXCEPT !.head = 0, !.pc = "store_tail"]
  /\ UNCHANGED notCtor

\* tail.store(0, relaxed); the constructor returns
CtorRingStoreTail ==
  /\ ctor.kind \in RingKinds
  /\ ctor.pc = "store_tail"
  /\ ctor' = [ctor EXCEPT !.tail = 0, !.pc = "constructed"]
  /\ UNCHANGED notCtor

\* SpscQueue() : head_(0), tail_(0), capacity_(INITIAL_CAPACITY), buffer_(capacity_)
CtorSqMembers ==
  /\ ctor.kind = "SpscQueue"
  /\ ctor.pc = "start"
  /\ ctor' = [ctor EXCEPT !.head = 0, !.tail = 0, !.slots = ctor.arg,
                          !.mask = SizeMinusOne(ctor.arg),
                          !.pc = "assert_positive"]
  /\ UNCHANGED notCtor

\* assert(INITIAL_CAPACITY > 0)
CtorSqAssertPositive ==
  /\ ctor.kind = "SpscQueue"
  /\ ctor.pc = "assert_positive"
  /\ ctor' = [ctor EXCEPT !.pc = IF ctor.arg > 0
                                   THEN "assert_pow2" ELSE "assert_failed"]
  /\ UNCHANGED notCtor

\* assert((INITIAL_CAPACITY & (INITIAL_CAPACITY - 1)) == 0)
CtorSqAssertPow2 ==
  /\ ctor.kind = "SpscQueue"
  /\ ctor.pc = "assert_pow2"
  /\ ctor' = [ctor EXCEPT !.pc = IF BitAnd(ctor.arg, SizeMinusOne(ctor.arg)) = 0
                                   THEN "constructed" ELSE "assert_failed"]
  /\ UNCHANGED notCtor

\* static_assert((BufferSize_ >= 2) && ((BufferSize_ & (BufferSize_ - 1)) == 0));
\* SpmcQueue() = default
CtorDequeStaticAssert ==
  /\ ctor.kind = "SpmcQueue"
  /\ ctor.pc = "start"
  /\ LET size == Pow2(ctor.arg) IN
       IF size >= 2 /\ BitAnd(size, size - 1) = 0
         THEN ctor' = [ctor EXCEPT !.head = 0, !.tail = 0, !.slots = size,
                                   !.mask = size - 1, !.pc = "constructed"]
         ELSE ctor' = [ctor EXCEPT !.pc = "rejected"]
  /\ UNCHANGED notCtor

NextCtor ==
  \/ CtorRingMask
  \/ CtorRingCheck
  \/ CtorRingResize
  \/ CtorRingStoreHead
  \/ CtorRingStoreTail
  \/ CtorSqMembers
  \/ CtorSqAssertPositive
  \/ CtorSqAssertPow2
  \/ CtorDequeStaticAssert

SpecCtor == InitCtor /\ [][NextCtor]_vars

\* n is a power of two
IsPowerOfTwo(n) == \E k \in 0 .. SizeBits : n = Pow2(k)

\* the construction failed: exception, assertion, or compile-time rejection
CtorFailed == ctor.pc \in {"thrown", "assert_failed", "rejected"}

\* C19: constructing a queue with a slot count of zero or one that is not a
\* power of two fails at construction; constructing with a power of two >= 2
\* succeeds with head == tail == 0; so every constructed queue has a mask of
\* the form 2^k - 1 with k >= 1.
C19_CtorValidates ==
  /\ ctor.pc = "constructed"
       => /\ IsPowerOfTwo(SlotCount)
          /\ SlotCount >= 2
          /\ ctor.head = 0
          /\ ctor.tail = 0
          /\ ctor.mask = SlotCount - 1
  /\ CtorFailed => ~(IsPowerOfTwo(SlotCount) /\ SlotCount >= 2)

(***************************************************************************)
(* StringPool operations: src/StringIntern.h                               *)
(***************************************************************************)
\* a StringPtr a thread holds: the String object (0: nullptr) and, as
\* history, the text it was interned for (<<>> for a handle obtained from
\* getStringByHash)
Handle(o, str) == [obj |-> o, text |-> str]

\* it->second.lock(): the String object if its use count is above zero,
\* else nullptr
WeakLock(o) == IF strings[o].strong > 0 THEN o ELSE 0

\* the use counts after a StringPtr to o (0: nullptr) has been made
Retain(o) ==
  IF o = 0 THEN strings
  ELSE [strings EXCEPT ![o].strong = strings[o].strong + 1]

\* the address operator new returns: a place where no String object lives
NewStringId == CHOOSE o \in StringIds : ~strings[o].live

\* sequence q without its i-th element
Without(q, i) == SubSeq(q, 1, i - 1) \o SubSeq(q, i + 1, Len(q))

(* ---- intern (called by try_emplace and operator"" _hs with the text's   *)
(* ---- fnv1a hash) -------------------------------------------------------- *)
\* std::lock_guard<std::mutex> lock(mutex_)
InternLock(t, str) ==
  /\ pth[t].pc = "idle"
  /\ Len(pth[t].held) < MaxHeld
  /\ mutex_ = 0
  /\ mutex_' = t
  /\ pth' = [pth EXCEPT ![t].pc = "intern_find", ![t].text = str,
                        ![t].hash = HashOf[str]]
  /\ UNCHANGED <<notPool, pool_, strings>>

\* auto it = pool_.find(hash);
\* if (it != pool_.end()) return it->second.lock();
InternFind(t) ==
  /\ pth[t].pc = "intern_find"
  /\ LET o == pool_[pth[t].hash] IN
       IF o # 0
         THEN /\ pth' = [pth EXCEPT ![t].pc = "intern_unlock",
                                    ![t].ret = WeakLock(o)]
              /\ strings' = Retain(WeakLock(o))
         ELSE /\ pth' = [pth EXCEPT ![t].pc = "intern_new"]
              /\ UNCHANGED strings
  /\ UNCHANGED <<notPool, pool_, mutex_>>

\* auto string_ref = StringPtr(new String(str), deleter);
\* pool_.emplace(hash, std::weak_ptr<const String>(string_ref));
\* return string_ref
InternNew(t) ==
  /\ pth[t].pc = "intern_new"
  /\ LET o == NewStringId IN
       /\ strings' = [strings EXCEPT ![o] = [data |-> pth[t].text,
                                              hash |-> pth[t].hash,
                                              strong |-> 1, live |-> TRUE]]
       /\ pool_' = [pool_ EXCEPT ![pth[t].hash] = o]
       /\ pth' = [pth EXCEPT ![t].pc = "intern_unlock", ![t].ret = o]
  /\ UNCHANGED <<notPool, mutex_>>

\* the lock_guard is destroyed; the caller receives the StringPtr
InternUnlock(t) ==
  /\ pth[t].pc = "intern_unlock"
  /\ mutex_' = 0
  /\ pth' = [pth EXCEPT ![t] = [IdlePoolThread EXCEPT
                !.held = Append(pth[t].held, Handle(pth[t].ret, pth[t].text))]]
  /\ UNCHANGED <<notPool, pool_, strings>>

(* ---- getStringByHash ---------------------------------------------------- *)
\* std::lock_guard<std::mutex> lock(mutex_)
GetLock(t, h) ==
  /\ pth[t].pc = "idle"
  /\ Len(pth[t].held) < MaxHeld
  /\ mutex_ = 0
  /\ mutex_' = t
  /\ pth' = [pth EXCEPT ![t].pc = "get_find", ![t].hash = h]
  /\ UNCHANGED <<notPool, pool_, strings>>

\* auto it = pool_.find(hash);
\* if (it != pool_.end()) return it->second.lock(); return nullptr
GetFind(t) ==
  /\ pth[t].pc = "get_find"
  /\ LET o == pool_[pth[t].hash]
         r == IF o # 0 THEN WeakLock(o) ELSE 0
     IN  /\ pth' = [pth EXCEPT ![t].pc = "get_unlock", ![t].ret = r]
         /\ strings' = Retain(r)
  /\ UNCHANGED <<notPool, pool_, mutex_>>

\* the lock_guard is destroyed; the caller receives the StringPtr
GetUnlock(t) ==
  /\ pth[t].pc = "get_unlock"
  /\ mutex_' = 0
  /\ pth' = [pth EXCEPT ![t] = [IdlePoolThread EXCEPT
                !.held = Append(pth[t].held, Handle(pth[t].ret, <<>>))]]
  /\ UNCHANGED <<notPool, pool_, strings>>

(* ---- a StringPtr is destroyed; the deleter of intern -------------------- *)
\* ~shared_ptr: the use count drops by one; the thread that brings it to zero
\* invokes the deleter
Release(t, i) ==
  /\ pth[t].pc = "idle"
  /\ i \in DOMAIN pth[t].held
  /\ LET o == pth[t].held[i].obj IN
       IF o = 0
         THEN /\ pth' = [pth EXCEPT ![t].held = Without(pth[t].held, i)]
              /\ UNCHANGED strings
         ELSE /\ strings' = [strings EXCEPT ![o].strong = strings[o].strong - 1]
              /\ pth' = [pth EXCEPT
                           ![t].held = Without(pth[t].held, i),
                           ![t].pc = IF strings[o].strong = 1
                                       THEN "del_lock" ELSE "idle",
                           ![t].ret = IF strings[o].strong = 1 THEN o ELSE 0,
                           ![t].hash = IF strings[o].strong = 1
                                         THEN strings[o].hash ELSE <<0, 0>>]
  /\ UNCHANGED <<notPool, pool_, mutex_>>

\* deleter: std::lock_guard<std::mutex> lock(this->mutex_)
DelLock(t) ==
  /\ pth[t].pc = "del_lock"
  /\ mutex_ = 0
  /\ mutex_' = t
  /\ pth' = [pth EXCEPT ![t].pc = "del_erase"]
  /\ UNCHANGED <<notPool, pool_, strings>>

\* deleter: this->pool_.erase(hash)
DelErase(t) ==
  /\ pth[t].pc = "del_erase"
  /\ pool_' = [pool_ EXCEPT ![pth[t].hash] = 0]
  /\ pth' = [pth EXCEPT ![t].pc = "del_delete"]
  /\ UNCHANGED <<notPool, mutex_, strings>>

\* deleter: delete p; the lock_guard is destroyed
DelDelete(t) ==
  /\ pth[t].pc = "del_delete"
  /\ strings' = [strings EXCEPT ![pth[t].ret] = NoString]
  /\ mutex_' = 0
  /\ pth' = [pth EXCEPT ![t].pc = "idle", ![t].ret = 0, ![t].hash = <<0, 0>>]
  /\ UNCHANGED <<notPool, pool_>>

NextPool ==
  \/ \E t \in PoolThreads, str \in Texts : InternLock(t, str)
  \/ \E t \in PoolThreads : InternFind(t)
  \/ \E t \in PoolThreads : InternNew(t)
  \/ \E t \in PoolThreads : InternUnlock(t)
  \/ \E t \in PoolThreads, h \in Hashes : GetLock(t, h)
  \/ \E t \in PoolThreads : GetFind(t)
  \/ \E t \in PoolThreads : GetUnlock(t)
  \/ \E t \in PoolThreads, i \in 1 .. MaxHeld : Release(t, i)
  \/ \E t \in PoolThreads : DelLock(t)
  \/ \E t \in PoolThreads : DelErase(t)
  \/ \E t \in PoolThreads : DelDelete(t)

SpecPool == Init /\ [][NextPool]_vars

(***************************************************************************)
(* Properties of StringPool                                                *)
(***************************************************************************)
\* the non-null handles obtained from intern that are held, by any thread
InternedHeld ==
  UNION {{pth[t].held[i] : i \in DOMAIN pth[t].held} : t \in PoolThreads} \cap
    [obj : StringIds, text : Texts]

\* C21: for any two texts interned while the handle of the other is still
\* held, the two handles are identical exactly when the texts are equal, and
\* the data of a handle equals the text it was interned for; also for two
\* different texts with the same 32-bit FNV-1a hash.
C21_InternIdentity ==
  /\ \A a, b \in InternedHeld : (a.obj = b.obj) <=> (a.text = b.text)
  /\ \A a \in InternedHeld : strings[a.obj].data = a.text

\* some thread holds a non-null handle to the String object of hash h
HeldFor(h) ==
  \E t \in PoolThreads : \E i \in DOMAIN pth[t].held :
    /\ pth[t].held[i].obj # 0
    /\ strings[pth[t].held[i].obj].hash = h

\* C28: intern never returns a null handle, and getStringByHash returns a
\* non-null handle whenever some thread holds a handle for the hash at the
\* instant of the lookup, for every interleaving with the release of the last
\* handle of the same text.
C28_NeverNull ==
  [][\A t \in PoolThreads :
       /\ (pth[t].pc = "intern_find" /\ pth'[t].pc = "intern_unlock")
            => pth'[t].ret # 0
       /\ (pth[t].pc = "intern_new" /\ pth'[t].pc = "intern_unlock")
            => pth'[t].ret # 0
       /\ (pth[t].pc = "get_find" /\ pth'[t].pc = "get_unlock"
           /\ HeldFor(pth[t].hash))
            => pth'[t].ret # 0
    ]_vars

====
